---- MODULE Spec2Model ----
(***************************************************************************)
(* Model of the three export scripts of documentos/DUIMP/exported-assets:  *)
(*   chart_script.py  timeline chart  -> timeline_duimp.png / .svg          *)
(*   script.py        two tables      -> two CSV files, console listing     *)
(*   script copy.py   two tables      -> two CSV files, console listing     *)
(* Each script is a straight-line program; pc is the statement about to be  *)
(* executed.  An exception is never caught: it is recorded in error and the *)
(* interpreter stops at the statement that raised it.                       *)
(***************************************************************************)
EXTENDS Integers, Sequences, FiniteSets, TLC

VARIABLES script, pc, error, fases, df, i, fig, data, tables, files, stdout

vars == <<script, pc, error, fases, df, i, fig, data, tables, files, stdout>>

\* Bounds of the model
MaxPhases == 3
MaxRows == 2

None == "None"
NaN == "NaN"

----------------------------------------------------------------------------
\* Generic helpers

Range(s) == {s[k] : k \in 1..Len(s)}

SeqsUpTo(S, n) == UNION {[1..m -> S] : m \in 0..n}

----------------------------------------------------------------------------
\* Dates: a date string 'YYYY-MM-DD' is the triple <<Y, M, D>>; a parsed
\* timestamp is the proleptic Gregorian day number.

IsLeap(y) == (y % 4 = 0) /\ ((y % 100 # 0) \/ (y % 400 = 0))

DaysInMonth(y, m) ==
    IF m = 2 THEN (IF IsLeap(y) THEN 29 ELSE 28)
    ELSE IF m \in {4, 6, 9, 11} THEN 30 ELSE 31

RECURSIVE DaysBeforeMonth(_, _)
DaysBeforeMonth(y, m) ==
    IF m = 1 THEN 0 ELSE DaysBeforeMonth(y, m - 1) + DaysInMonth(y, m - 1)

DaysBeforeYear(y) ==
    LET p == y - 1 IN (p * 365) + (p \div 4) - (p \div 100) + (p \div 400)

to_datetime(s) == DaysBeforeYear(s[1]) + DaysBeforeMonth(s[1], s[2]) + s[3]

----------------------------------------------------------------------------
\* chart_script.py: input records

PhaseFields == <<"nome", "periodo", "modal", "status", "inicio", "fim">>

Nomes == {"Fase 2A", "Fase 1"}

\* the three statuses of the source data and one the colour map lacks
Statuses == {"Implementado", "Em Andamento", "Previsto", "Cancelado"}

\* (inicio, fim): one period inside the axis range, and one that runs
\* backwards and lies outside the axis range at both ends
Periods == { << <<2024, 10, 1>>, <<2024, 12, 31>> >>,
             << <<2026, 3, 1>>, <<2024, 9, 1>> >> }

PhaseRecords ==
    { [nome |-> n, periodo |-> "Out-Dez 2024", modal |-> "Modal Maritimo",
       status |-> s, inicio |-> p[1], fim |-> p[2]] :
      n \in Nomes, s \in Statuses, p \in Periods }

status_colors ==
    [s \in {"Implementado", "Em Andamento", "Previsto"} |->
        CASE s = "Implementado" -> "#2E8B57"
          [] s = "Em Andamento" -> "#1FB8CD"
          [] s = "Previsto" -> "#D2BA4C"]

XRange == << <<2024, 9, 15>>, <<2026, 1, 15>> >>

----------------------------------------------------------------------------
\* pandas operations

\* (variant: the rows come out in reverse order)
DataFrameReversed(recs) ==
    [columns |-> PhaseFields,
     rows |-> [k \in 1..Len(recs) |-> recs[Len(recs) + 1 - k]]]

\* pd.DataFrame(list of dicts): one row per record, in list order; columns
\* in the key order of the records
DataFrameFromRecords(recs) ==
    [columns |-> PhaseFields, rows |-> recs]

\* Series.map(dict): a value that is not a key of the dict maps to NaN
MapDict(m, v) == IF v \in DOMAIN m THEN m[v] ELSE NaN

\* df['inicio'] = pd.to_datetime(df['inicio']); the same for 'fim': both
\* columns are replaced in place
ParseDates(d) ==
    [columns |-> d.columns,
     rows |-> [k \in 1..Len(d.rows) |->
                 [d.rows[k] EXCEPT !.inicio = to_datetime(@),
                                   !.fim = to_datetime(@)]]]

\* (variant: the colour is taken from a palette by row position)
MapColorsByPosition(d) ==
    [columns |-> Append(d.columns, "color"),
     rows |-> [k \in 1..Len(d.rows) |->
                 [c \in (DOMAIN d.rows[k]) \cup {"color"} |->
                     IF c = "color"
                     THEN <<"#2E8B57", "#1FB8CD", "#D2BA4C">>[((k - 1) % 3) + 1]
                     ELSE d.rows[k][c]]]]

\* df['color'] = df['status'].map(status_colors): a new last column
MapColors(d) ==
    [columns |-> Append(d.columns, "color"),
     rows |-> [k \in 1..Len(d.rows) |->
                 [c \in (DOMAIN d.rows[k]) \cup {"color"} |->
                     IF c = "color" THEN MapDict(status_colors, d.rows[k].status)
                     ELSE d.rows[k][c]]]]

\* pd.DataFrame(dict of lists): the dict is the sequence of its items in
\* insertion order; all lists must have the same length
DictOk(d) == \A a, b \in 1..Len(d) : Len(d[a].values) = Len(d[b].values)

DictKeys(d) == [k \in 1..Len(d) |-> d[k].key]

DictGet(d, c) == d[CHOOSE k \in 1..Len(d) : d[k].key = c].values

DataFrameFromDict(d) ==
    [columns |-> DictKeys(d),
     rows |-> [r \in 1..(IF Len(d) = 0 THEN 0 ELSE Len(d[1].values)) |->
                 [c \in Range(DictKeys(d)) |-> DictGet(d, c)[r]]]]

----------------------------------------------------------------------------
\* plotly operations

\* go.Figure(): no traces, default layout (x range unset = autorange)
EmptyFigure ==
    [data |-> <<>>,
     layout |-> [xaxis |-> [range |-> <<>>],
                 yaxis |-> [categoryorder |-> "trace", categoryarray |-> <<>>]]]

\* (variant: only the previous trace is looked at)
ShowLegendLast(row, f) ==
    (Len(f.data) = 0) \/ (f.data[Len(f.data)].name # row.status)

\* showlegend=row['status'] not in [trace.name for trace in fig.data]
ShowLegend(row, f) == row.status \notin {f.data[k].name : k \in 1..Len(f.data)}

\* (variant: the two x values are exchanged)
ScatterSwapped(row, f) ==
    [x |-> <<row.fim, row.inicio>>,
     y |-> <<row.nome, row.nome>>,
     mode |-> "lines+markers",
     line |-> [color |-> row.color, width |-> 8],
     marker |-> [color |-> row.color, size |-> 10],
     name |-> row.status,
     legendgroup |-> row.status,
     showlegend |-> ShowLegend(row, f),
     hovertemplate |-> <<row.modal, row.status, row.periodo>>]

\* go.Scatter(...) for one row of df
Scatter(row, f) ==
    [x |-> <<row.inicio, row.fim>>,
     y |-> <<row.nome, row.nome>>,
     mode |-> "lines+markers",
     line |-> [color |-> row.color, width |-> 8],
     marker |-> [color |-> row.color, size |-> 10],
     name |-> row.status,
     legendgroup |-> row.status,
     showlegend |-> ShowLegend(row, f),
     hovertemplate |-> <<row.modal, row.status, row.periodo>>]

\* scatter.line.color takes a colour string only: NaN is refused when the
\* trace is constructed (ValueError)
ScatterOk(row) == row.color # NaN

\* (variant: the names are listed by start date)
CategoryArrayByDate(d) ==
    LET sorted == SortSeq(d.rows, LAMBDA a, b : a.inicio < b.inicio)
    IN  [k \in 1..Len(sorted) |-> sorted[k].nome]

\* yaxis=dict(categoryorder='array', categoryarray=df['nome'].tolist())
CategoryArray(d) == [k \in 1..Len(d.rows) |-> d.rows[k].nome]

UpdateLayout(f, d) ==
    [f EXCEPT !.layout.yaxis =
        [categoryorder |-> "array", categoryarray |-> CategoryArray(d)]]

\* (variant: the range is left to autorange, the extent of the data)
UpdateXaxesAuto(f, d) == f

\* fig.update_xaxes(range=['2024-09-15', '2026-01-15'])
UpdateXaxes(f, d) == [f EXCEPT !.layout.xaxis.range = XRange]

----------------------------------------------------------------------------
\* The three programs

Scripts == {"chart_script.py", "script.py", "script copy.py"}

Program(s) ==
    CASE s = "chart_script.py" ->
           <<"DataFrame", "to_datetime", "map", "Figure", "add_trace",
             "update_layout", "update_xaxes",
             "open1", "write1", "open2", "write2", "done">>
      [] s = "script.py" ->
           <<"table1", "open1", "write1", "table2", "open2", "write2",
             "print_success", "print_tables", "done">>
      [] s = "script copy.py" ->
           <<"table1", "table2", "open1", "write1", "open2", "write2",
             "print_tables", "print_success", "done">>

Pos(s, p) == CHOOSE k \in 1..Len(Program(s)) : Program(s)[k] = p

\* the statement after statement p
Succ(s, p) == Program(s)[Pos(s, p) + 1]

\* statement p of the running script has completed (a statement that
\* raised keeps pc)
Passed(p) == Pos(script, pc) > Pos(script, p)

OutFiles(s) ==
    CASE s = "chart_script.py" -> <<"timeline_duimp.png", "timeline_duimp.svg">>
      [] s = "script.py" ->
           <<"comparacao_di_duimp.csv", "cronograma_duimp_2025.csv">>
      [] s = "script copy.py" ->
           <<"comparacao_xml_di_duimp.csv", "comparacao_campos_di_duimp.csv">>

AllFiles == UNION {Range(OutFiles(s)) : s \in Scripts}

TableColumns(s, n) ==
    CASE s = "script.py" /\ n = 1 ->
           <<"Aspecto", "DI (Declaracao de Importacao)",
             "DUIMP (Declaracao Unica de Importacao)">>
      [] s = "script.py" /\ n = 2 ->
           <<"Fase", "Periodo", "Modal/Operacao", "Caracteristicas", "Status">>
      [] s = "script copy.py" /\ n = 1 ->
           <<"Aspecto", "DI (Declaracao de Importacao)",
             "DUIMP (Declaracao Unica de Importacao)">>
      [] s = "script copy.py" /\ n = 2 ->
           <<"Campo/Informacao", "DI", "DUIMP">>

\* dict literals over the given columns: the cell of column c in position r
\* is <<c, r>>; the lists may differ in length
TableInputs(cols) ==
    { [k \in 1..Len(cols) |->
          [key |-> cols[k],
           values |-> [r \in 1..lens[k] |-> <<cols[k], r>>]]] :
      lens \in [1..Len(cols) -> 0..MaxRows] }

SuccessMessage(s) ==
    IF s = "script.py" THEN "Tabelas criadas e salvas com sucesso!"
    ELSE "Arquivos CSV criados com sucesso!"

TableListing(s) ==
    IF s = "script.py"
    THEN <<"=== TABELA COMPARATIVA DI x DUIMP ===", "df_comparacao",
           "=== CRONOGRAMA DE IMPLEMENTACAO DUIMP 2025 ===", "df_cronograma">>
    ELSE <<"=== COMPARACAO XML/ESTRUTURA DE DADOS ===", "df_xml_comparison",
           "=== COMPARACAO DE CAMPOS E ESTRUTURA ===", "df_campos">>

----------------------------------------------------------------------------
\* Control

\* normal completion of the statement at pc
Advance == pc' = Succ(script, pc) /\ error' = error

\* (variant: the exception is caught and dropped, the script goes on)
RaiseSwallowed(e) == pc' = Succ(script, pc) /\ error' = None

\* an exception raised by the statement at pc: nothing catches it, the
\* interpreter stops there
Raise(e) == pc' = pc /\ error' = e

Running == error = None /\ pc # "done"

Init ==
    /\ script \in Scripts
    /\ pc = Program(script)[1]
    /\ error = None
    /\ fases \in (IF script = "chart_script.py"
                  THEN SeqsUpTo(PhaseRecords, MaxPhases) ELSE {<<>>})
    /\ df = [columns |-> <<>>, rows |-> <<>>]
    /\ i = 1
    /\ fig = EmptyFigure
    /\ data = <<>>
    /\ tables = <<>>
    /\ files = [f \in AllFiles |-> "absent"]
    /\ stdout = <<>>

\* chart_script.py ---------------------------------------------------------

BuildFrame ==
    /\ Running /\ pc = "DataFrame"
    /\ df' = DataFrameFromRecords(fases)
    /\ Advance
    /\ UNCHANGED <<script, fases, i, fig, data, tables, files, stdout>>

ToDatetime ==
    /\ Running /\ pc = "to_datetime"
    /\ df' = ParseDates(df)
    /\ Advance
    /\ UNCHANGED <<script, fases, i, fig, data, tables, files, stdout>>

MapStatus ==
    /\ Running /\ pc = "map"
    /\ df' = MapColors(df)
    /\ Advance
    /\ UNCHANGED <<script, fases, i, fig, data, tables, files, stdout>>

NewFigure ==
    /\ Running /\ pc = "Figure"
    /\ fig' = EmptyFigure
    /\ i' = 1
    /\ Advance
    /\ UNCHANGED <<script, fases, df, data, tables, files, stdout>>

\* one iteration of: for i, row in df.iterrows(): fig.add_trace(go.Scatter(..))
AddTrace ==
    /\ Running /\ pc = "add_trace"
    /\ i <= Len(df.rows)
    /\ IF ScatterOk(df.rows[i])
       THEN /\ fig' = [fig EXCEPT !.data = Append(@, Scatter(df.rows[i], fig))]
            /\ i' = i + 1
            /\ UNCHANGED <<pc, error>>
       ELSE /\ Raise("ValueError")
            /\ UNCHANGED <<fig, i>>
    /\ UNCHANGED <<script, fases, df, data, tables, files, stdout>>

\* the iterator is exhausted
LoopEnd ==
    /\ Running /\ pc = "add_trace"
    /\ i > Len(df.rows)
    /\ Advance
    /\ UNCHANGED <<script, fases, df, i, fig, data, tables, files, stdout>>

Layout ==
    /\ Running /\ pc = "update_layout"
    /\ fig' = UpdateLayout(fig, df)
    /\ Advance
    /\ UNCHANGED <<script, fases, df, i, data, tables, files, stdout>>

Xaxes ==
    /\ Running /\ pc = "update_xaxes"
    /\ fig' = UpdateXaxes(fig, df)
    /\ Advance
    /\ UNCHANGED <<script, fases, df, i, data, tables, files, stdout>>

\* script.py, script copy.py -----------------------------------------------

\* the dict literal and pd.DataFrame(dict)
BuildTable ==
    /\ Running /\ pc \in {"table1", "table2"}
    /\ \E d \in TableInputs(TableColumns(script, Len(tables) + 1)) :
          /\ data' = Append(data, d)
          /\ IF DictOk(d)
             THEN tables' = Append(tables, DataFrameFromDict(d)) /\ Advance
             ELSE tables' = tables /\ Raise("ValueError")
    /\ UNCHANGED <<script, fases, df, i, fig, files, stdout>>

PrintSuccess ==
    /\ Running /\ pc = "print_success"
    /\ stdout' = Append(stdout, SuccessMessage(script))
    /\ Advance
    /\ UNCHANGED <<script, fases, df, i, fig, data, tables, files>>

PrintTables ==
    /\ Running /\ pc = "print_tables"
    /\ stdout' = stdout \o TableListing(script)
    /\ Advance
    /\ UNCHANGED <<script, fases, df, i, fig, data, tables, files>>

\* file output of all three scripts ----------------------------------------

FileAt(s, p) == OutFiles(s)[IF p \in {"open1", "write1"} THEN 1 ELSE 2]

\* fig.write_image(path) / df.to_csv(path), first half: the content is
\* produced and the destination is opened for writing (created or
\* truncated); a failure here (format not supported, destination not
\* writable) leaves the file system as it was
OpenFile ==
    /\ Running /\ pc \in {"open1", "open2"}
    /\ \E ok \in BOOLEAN :
          IF ok
          THEN /\ files' = [files EXCEPT ![FileAt(script, pc)] = "partial"]
               /\ Advance
          ELSE /\ files' = files
               /\ Raise(IF script = "chart_script.py" THEN "ValueError"
                        ELSE "OSError")
    /\ UNCHANGED <<script, fases, df, i, fig, data, tables, stdout>>

\* second half: the content is written and the file is closed; a failure
\* during the write (device full, I/O error) leaves what was written
WriteFile ==
    /\ Running /\ pc \in {"write1", "write2"}
    /\ \E ok \in BOOLEAN :
          IF ok
          THEN /\ files' = [files EXCEPT ![FileAt(script, pc)] = "complete"]
               /\ Advance
          ELSE /\ files' = files
               /\ Raise("OSError")
    /\ UNCHANGED <<script, fases, df, i, fig, data, tables, stdout>>

Next ==
    \/ BuildFrame
    \/ ToDatetime
    \/ MapStatus
    \/ NewFigure
    \/ AddTrace
    \/ LoopEnd
    \/ Layout
    \/ Xaxes
    \/ BuildTable
    \/ PrintSuccess
    \/ PrintTables
    \/ OpenFile
    \/ WriteFile

Spec == Init /\ [][Next]_vars

----------------------------------------------------------------------------
\* Properties

Chart == script = "chart_script.py"

Traces == fig.data

Mapped(st) == st \in DOMAIN status_colors

Backwards(ph) == to_datetime(ph.inicio) > to_datetime(ph.fim)

Finished == error # None \/ pc = "done"

\* C1: every trace carries the status of its phase, and its showlegend is
\* true exactly when no earlier phase (in input row order) has the same
\* status; so each status that was drawn has exactly one trace with
\* showlegend = true, the first one.
C1_LegendFirstOccurrence ==
    /\ \A k \in 1..Len(Traces) :
          /\ Traces[k].name = fases[k].status
          /\ Traces[k].legendgroup = fases[k].status
          /\ Traces[k].showlegend =
                (\A j \in 1..(k - 1) : fases[j].status # fases[k].status)
    /\ \A st \in {Traces[k].name : k \in 1..Len(Traces)} :
          Cardinality({k \in 1..Len(Traces) :
                          Traces[k].name = st /\ Traces[k].showlegend}) = 1

\* three traces drawn, the third repeating the status of the first with
\* another status in between
C1_Witness ==
    /\ Chart /\ Len(Traces) = 3
    /\ Traces[1].name = Traces[3].name
    /\ Traces[1].name # Traces[2].name
    /\ Traces[1].showlegend /\ Traces[2].showlegend /\ ~Traces[3].showlegend

\* C2 (as claimed): when some phase has a status that is not a key of
\* status_colors, the colour resolution statement does not complete.
C2_UnmappedStatusRaises ==
    (Chart /\ \E k \in 1..Len(fases) : ~Mapped(fases[k].status))
        => ~Passed("map")

\* C3 (as claimed): for data with a phase that starts after it ends no trace
\* is emitted and no image file is touched.
C3_BackwardsPhaseRejected ==
    (Chart /\ \E k \in 1..Len(fases) : Backwards(fases[k]))
        => /\ Traces = <<>>
           /\ \A f \in Range(OutFiles(script)) : files[f] = "absent"

\* C4 (as claimed): when a run has ended, in success or in failure, every
\* output file is absent or completely written.
C4_NoPartialFile ==
    Finished => \A f \in AllFiles : files[f] \in {"absent", "complete"}

\* C5: a failure is terminal: once an exception was raised no statement is
\* executed any more; the second output file is touched only after the first
\* one was completed; the success message is on the console only if both CSV
\* files of the script were completely written.
C5_FailureIsTerminal ==
    /\ (error # None) => ~ENABLED Next
    /\ (files[OutFiles(script)[2]] # "absent")
          => (files[OutFiles(script)[1]] = "complete")
    /\ (SuccessMessage(script) \in Range(stdout))
          => \A f \in Range(OutFiles(script)) : files[f] = "complete"
    /\ (error # None) => (SuccessMessage(script) \notin Range(stdout))

\* script.py stopped by a failure in the middle of its second CSV write
C5_Witness ==
    /\ script = "script.py" /\ error = "OSError" /\ pc = "write2"
    /\ files["comparacao_di_duimp.csv"] = "complete"
    /\ files["cronograma_duimp_2025.csv"] = "partial"
    /\ stdout = <<>>

\* C6: once the layout was updated, the y axis has categoryorder 'array' and
\* its categoryarray is the list of the phase names in input row order.
C6_CategoryOrderIsInputOrder ==
    (Chart /\ Passed("update_layout"))
        => /\ fig.layout.yaxis.categoryorder = "array"
           /\ fig.layout.yaxis.categoryarray =
                 [k \in 1..Len(fases) |-> fases[k].nome]

\* layout updated for phases whose input order is neither alphabetical nor
\* by start date
C6_Witness ==
    /\ Chart /\ Passed("update_layout") /\ Len(fases) = 2
    /\ fig.layout.yaxis.categoryarray = <<"Fase 2A", "Fase 1">>
    /\ to_datetime(fases[1].inicio) > to_datetime(fases[2].inicio)

\* C7: the x-axis range is unset until update_xaxes has run and is exactly
\* ('2024-09-15', '2026-01-15') from then on, whatever the dates of the
\* phases are.
C7_RangeIsTheBounds ==
    Chart => fig.layout.xaxis.range =
                (IF Passed("update_xaxes")
                 THEN << <<2024, 9, 15>>, <<2026, 1, 15>> >> ELSE <<>>)

\* the image was written for data that lies outside the range at both ends
C7_Witness ==
    /\ Chart /\ files["timeline_duimp.png"] = "complete"
    /\ fig.layout.xaxis.range = XRange
    /\ \E k \in 1..Len(Traces) :
          /\ Traces[k].x[2] < to_datetime(XRange[1])
          /\ Traces[k].x[1] > to_datetime(XRange[2])

C9_ColourByStatus ==
    /\ \A k \in 1..Len(Traces) :
          /\ Mapped(Traces[k].name)
          /\ Traces[k].line.color = status_colors[Traces[k].name]
          /\ Traces[k].marker.color = Traces[k].line.color
    /\ \A j, k \in 1..Len(Traces) :
          (Traces[j].name = Traces[k].name)
              => (Traces[j].line.color = Traces[k].line.color)

\* the first and the third trace have the same status and the same colour,
\* the second has another status and another colour
C9_Witness ==
    /\ Chart /\ Len(Traces) = 3
    /\ Traces[1].name = Traces[3].name
    /\ Traces[1].line.color = Traces[3].marker.color
    /\ Traces[2].name # Traces[1].name
    /\ Traces[2].line.color # Traces[1].line.color

\* C10: the traces are those of the first i - 1 phases, in input row order,
\* each with the two points (inicio, nome) and (fim, nome) of its phase; when
\* the loop has ended there are as many traces as phases.
C10_OneTracePerPhase ==
    Chart =>
       /\ Len(Traces) = i - 1
       /\ Len(Traces) <= Len(fases)
       /\ \A k \in 1..Len(Traces) :
             /\ Traces[k].x = <<to_datetime(fases[k].inicio),
                                to_datetime(fases[k].fim)>>
             /\ Traces[k].y = <<fases[k].nome, fases[k].nome>>
             /\ Len(Traces[k].x) = 2 /\ Len(Traces[k].y) = 2
       /\ Passed("add_trace") => Len(Traces) = Len(fases)

\* the loop has ended after three phases with different periods
C10_Witness ==
    /\ Chart /\ Passed("add_trace") /\ Len(fases) = 3 /\ Len(Traces) = 3
    /\ Traces[1].x # Traces[2].x
    /\ Traces[1].y # Traces[3].y

====
